---- MODULE Spec2Model ----
(***************************************************************************)
(* A model of cache_simulator.c: a set-associative cache simulator whose   *)
(* sets are doubly linked lists ordered by recency (head = most recently   *)
(* used, tail = least recently used).                                      *)
(*                                                                         *)
(* 64-bit words (unsigned long) and 32-bit ints whose high bits matter are *)
(* represented as the set of positions of their 1 bits, so the word width  *)
(* is kept exactly.  Undefined behaviour (a shift by an amount outside     *)
(* 0..width-1, a NULL dereference, an index outside the set array) is a    *)
(* choice among the outcomes a build produces.                             *)
(***************************************************************************)
EXTENDS Integers, Sequences, FiniteSets, TLC

\* ------------------------------------------------------------------ bounds
MaxTrace == 4      \* records read from the trace
MaxE == 3          \* largest associativity tried

\* ------------------------------------------------------- program constants
ADDRESS_BITS == 64
INT_BITS == 32

NULL == 0
NodeIds == 1..MaxTrace
NoSet == 0 - 1
\* the value of a local that has not been assigned yet
Uninit == {0 - 1}

\* ------------------------------------------------------------- bit vectors
Pow2(n) == 2 ^ n

\* the 1 bits of a small non-negative int
BitsOf(n) == {i \in 0..30 : (n \div Pow2(i)) % 2 = 1}

\* value of a bit set all of whose bits are below 31
RECURSIVE ValueOf(_)
ValueOf(bits) ==
    IF bits = {} THEN 0
    ELSE LET i == CHOOSE x \in bits : TRUE
         IN Pow2(i) + ValueOf(bits \ {i})

\* unsigned long x << n and x >> n for 0 <= n < 64
Shl(x, n) == {i + n : i \in {j \in x : j + n < ADDRESS_BITS}}
Shr(x, n) == {i - n : i \in {j \in x : j >= n}}

\* A shift of an unsigned long by an amount outside 0..63 is undefined: the
\* builds either mask the amount to its low six bits (x86-64, AArch64
\* variable shifts) or yield 0 (folded shifts, other targets).
ShlOutcomes(x, n) ==
    IF n \in 0..(ADDRESS_BITS - 1) THEN {Shl(x, n)}
    ELSE {Shl(x, n % ADDRESS_BITS), {}}
ShrOutcomes(x, n) ==
    IF n \in 0..(ADDRESS_BITS - 1) THEN {Shr(x, n)}
    ELSE {Shr(x, n % ADDRESS_BITS), {}}

\* int 1 << n, as a 32-bit pattern: 1 << 31 is the sign bit; an amount of 32
\* or more is masked to its low five bits or yields 0.
IntShlOneOutcomes(n) ==
    IF n \in 0..(INT_BITS - 1) THEN {{n}}
    ELSE {{n % INT_BITS}, {}}

\* (unsigned long)(count * B) with count a small non-negative int and B an
\* int pattern with at most one bit set: the product wraps to 32 bits and
\* the conversion sign-extends it.
IntMulToULong(count, Bpat) ==
    LET prod == {i + k : i \in BitsOf(count), k \in Bpat} \cap (0..(INT_BITS - 1))
    IN IF (INT_BITS - 1) \in prod
       THEN prod \cup (INT_BITS..(ADDRESS_BITS - 1))
       ELSE prod

\* (unsigned long) of a small non-negative int
IntToULong(n) == BitsOf(n)

\* ------------------------------------------------------------------ inputs
\* <<s, b>>: one set of one-byte blocks, two sets of two-byte blocks, a
\* block size that overflows an int (B = 1 << 31), and one with s + b > 64
Geoms == {<<0, 0>>, <<1, 1>>, <<0, INT_BITS - 1>>, <<1, ADDRESS_BITS + 39>>}
EVals == (0 - 1)..MaxE
\* addresses 0, 1, 2 and 2^32
Addrs == {BitsOf(n) : n \in 0..2} \cup {{INT_BITS}}
OtherOps == {"M"}

\* the decoder alone is run on more geometries, among them tag and set
\* fields at the top of the word, a single set (s = 0) and a zero-width tag
\* (s + b = 64), and on every address with bits among these
DecGeoms == {<<1, 0>>, <<1, 1>>, <<2, 0>>, <<2, 2>>, <<1, 62>>, <<2, 61>>,
             <<0, 1>>, <<1, 63>>}
DecAddrs == SUBSET {0, 1, 2, 3, 4, 62, 63}

\* ------------------------------------------------------------------- state
VARIABLES
    s, E, b, S, B, t,          \* geometry globals
    oob,                       \* what this build and run make of an access
                               \* to cache[i] outside the array
    cache,                     \* the array of queue_set_t, and the memory
                               \* beyond it that a set index can reach
    heap,                      \* queue_node_t and its cache_line, by node id
    live,                      \* node ids malloc'ed and not yet freed
    hit, miss, eviction, dirty_count, dirty_eviction,
    pc,                        \* "running", "done" or "crashed"
    pos,                       \* trace records read so far
    operation, address,        \* main's locals filled by fscanf
    nread,                     \* the number of fields the last fscanf assigned
    curr_tag, curr_set_num,    \* the arguments of the last call of count()
    acc_set,                   \* the element of cache the last count() used
    stats,                     \* the report handed to printSummary
    last_use,                  \* history: pos of each node's last hit/insertion
    accesses                   \* history: the calls of count() so far

vars == <<s, E, b, S, B, t, oob, cache, heap, live, hit, miss, eviction,
          dirty_count, dirty_eviction, pc, pos, operation, address, nread,
          curr_tag, curr_set_num, acc_set, stats, last_use, accesses>>

geometry == <<s, E, b, S, B, t, oob>>
counters == <<hit, miss, eviction, dirty_count, dirty_eviction>>

FreeNode == [prev |-> NULL, next |-> NULL, valid_bit |-> 0, dirty_bit |-> 0,
             tag |-> {}]
EmptySet == [head |-> NULL, tail |-> NULL, curr_line_num |-> 0]
NoStats == [reported |-> FALSE]

\* the indexes of the array: cache[0] .. cache[S-1]
SetIds == 0..(S - 1)

\* ------------------------------------------------------------ list helpers
\* the nodes reached from n by following next, in order
RECURSIVE Walk(_, _)
Walk(h, n) == IF n = NULL THEN <<>> ELSE <<n>> \o Walk(h, h[n].next)

Nodes(h, q) == Walk(h, q.head)
Range(f) == {f[i] : i \in DOMAIN f}

\* a scan whose loop stops one node early and never looks at the tail
RECURSIVE FindNodeSkipTail(_, _, _)
FindNodeSkipTail(h, n, tag) ==
    IF n = NULL \/ h[n].next = NULL THEN NULL
    ELSE IF h[n].valid_bit # 0 /\ h[n].tag = tag THEN n
    ELSE FindNodeSkipTail(h, h[n].next, tag)

\* the scan of count(): first node from n on holding a valid line with tag
RECURSIVE FindNode(_, _, _)
FindNode(h, n, tag) ==
    IF n = NULL THEN NULL
    ELSE IF h[n].valid_bit # 0 /\ h[n].tag = tag THEN n
    ELSE FindNode(h, h[n].next, tag)

\* malloc: the least free id stands for whichever block malloc returns
NewNode(lv) == CHOOSE n \in NodeIds \ lv : \A m \in NodeIds \ lv : n <= m

\* ----------------------------------------------------------------- decoder
TagShift == s + b
SetShiftLeft == t
\* a right shift that forgets the block offset
SetShiftRightNoBlock == t
SetShiftRight == b + t

TagOutcomes(a) == ShrOutcomes(a, TagShift)
SetNumOutcomes(a) ==
    IF t = ADDRESS_BITS THEN {{}}
    ELSE UNION {ShrOutcomes(x, SetShiftRight) : x \in ShlOutcomes(a, SetShiftLeft)}

InArray(idx) == \A i \in idx : i < s

\* the place of cache[2^i], i >= s, in the memory beyond the array
BeyondSlots(idx) == {S + i : i \in {j \in idx : idx = {j}}}

\* the places beyond the array that the set indexes of Addrs reach
Beyond ==
    UNION {BeyondSlots(x) : x \in UNION {SetNumOutcomes(a) : a \in Addrs}}

\* some address of Addrs gets a set index outside the array
OutOfArray ==
    \E a \in Addrs : \E x \in SetNumOutcomes(a) : ~InArray(x)

\* cache[curr_set_num]: inside the array, that element; outside it the access
\* is undefined: it faults, or lands on some element of the array (the
\* byte offset wraps), or on zero-filled memory beyond the array, which
\* count() uses as one more queue_set_t
OobModes == {"fault", "wrap", "beyond"}
AccOutcomes(idx) ==
    IF InArray(idx) THEN {ValueOf(idx)}
    ELSE IF oob = "wrap" THEN SetIds
    ELSE IF oob = "beyond" /\ BeyondSlots(idx) # {} THEN BeyondSlots(idx)
    ELSE {NoSet}

\* ------------------------------------------------------------------- count
\* A step on one set yields the heap and the queue_set_t it leaves.

\* a hit that marks the line but leaves it where it is in the list
HitNoPromote(h, q, n, dirty) ==
    [heap |-> [h EXCEPT ![n].dirty_bit = IF dirty = 1 THEN 1 ELSE @],
     set |-> q]

\* a hit that marks the line dirty whatever the operation
HitAlwaysDirty(h, q, n, dirty) ==
    LET h1 == [h EXCEPT ![n].dirty_bit = 1]
        prev_node == h1[n].prev
    IN IF prev_node = NULL THEN [heap |-> h1, set |-> q]
       ELSE LET q1 == IF q.tail = n THEN [q EXCEPT !.tail = prev_node] ELSE q
                h2 == IF q.tail = n THEN h1
                      ELSE [h1 EXCEPT ![h1[n].next].prev = prev_node]
                h3 == [h2 EXCEPT ![prev_node].next = h2[n].next]
                h4 == [h3 EXCEPT ![n].prev = NULL, ![n].next = q1.head]
                h5 == [h4 EXCEPT ![q1.head].prev = n]
            IN [heap |-> h5, set |-> [q1 EXCEPT !.head = n]]

\* a hit that promotes the line and stores the access's dirty flag in it
HitOverwriteDirty(h, q, n, dirty) ==
    LET h1 == [h EXCEPT ![n].dirty_bit = dirty]
        prev_node == h1[n].prev
    IN IF prev_node = NULL THEN [heap |-> h1, set |-> q]
       ELSE LET q1 == IF q.tail = n THEN [q EXCEPT !.tail = prev_node] ELSE q
                h2 == IF q.tail = n THEN h1
                      ELSE [h1 EXCEPT ![h1[n].next].prev = prev_node]
                h3 == [h2 EXCEPT ![prev_node].next = h2[n].next]
                h4 == [h3 EXCEPT ![n].prev = NULL, ![n].next = q1.head]
                h5 == [h4 EXCEPT ![q1.head].prev = n]
            IN [heap |-> h5, set |-> [q1 EXCEPT !.head = n]]

\* a hit that promotes the line but leaves tail on it when it was the tail
HitKeepTail(h, q, n, dirty) ==
    LET h1 == [h EXCEPT ![n].dirty_bit = IF dirty = 1 THEN 1 ELSE @]
        prev_node == h1[n].prev
    IN IF prev_node = NULL THEN [heap |-> h1, set |-> q]
       ELSE LET h2 == IF q.tail = n THEN h1
                      ELSE [h1 EXCEPT ![h1[n].next].prev = prev_node]
                h3 == [h2 EXCEPT ![prev_node].next = h2[n].next]
                h4 == [h3 EXCEPT ![n].prev = NULL, ![n].next = q.head]
                h5 == [h4 EXCEPT ![q.head].prev = n]
            IN [heap |-> h5, set |-> [q EXCEPT !.head = n]]

\* lines 78-96: the dirty mark and the move of the found node n to the head
Hit(h, q, n, dirty) ==
    LET h1 == [h EXCEPT ![n].dirty_bit = IF dirty = 1 THEN 1 ELSE @]
        prev_node == h1[n].prev
    IN IF prev_node = NULL THEN [heap |-> h1, set |-> q]
       ELSE LET q1 == IF q.tail = n THEN [q EXCEPT !.tail = prev_node] ELSE q
                h2 == IF q.tail = n THEN h1
                      ELSE [h1 EXCEPT ![h1[n].next].prev = prev_node]
                h3 == [h2 EXCEPT ![prev_node].next = h2[n].next]
                h4 == [h3 EXCEPT ![n].prev = NULL, ![n].next = q1.head]
                h5 == [h4 EXCEPT ![q1.head].prev = n]
            IN [heap |-> h5, set |-> [q1 EXCEPT !.head = n]]

\* a capacity test that is off by one
MustEvictOffByOne(q) == q.curr_line_num > E

\* line 115: the set is full
MustEvict(q) == q.curr_line_num >= E

\* line 117: the node to evict
Victim(q) == q.tail

\* lines 118-135: unlink evict_node, free it and its line, count the set down
Evict(h, q, evict_node) ==
    LET unlinked ==
            IF evict_node # NULL /\ h[evict_node].prev # NULL
            THEN LET prev_node == h[evict_node].prev
                 IN [heap |-> [h EXCEPT ![evict_node].prev = NULL,
                                        ![prev_node].next = NULL],
                     set |-> [q EXCEPT !.tail = prev_node]]
            ELSE IF q.curr_line_num = 1
            THEN [heap |-> h, set |-> [q EXCEPT !.head = NULL, !.tail = NULL]]
            ELSE [heap |-> h, set |-> q]
    IN [heap |-> [unlinked.heap EXCEPT ![evict_node] = FreeNode],
        set |-> [unlinked.set EXCEPT !.curr_line_num = @ - 1]]

\* an insertion that does not link the old head back to new_node
InsertNoBackLink(h, q, new_node) ==
    LET h1 == [h EXCEPT ![new_node].prev = NULL, ![new_node].next = q.head]
    IN [heap |-> h1,
        set |-> [q EXCEPT !.tail = IF q.head # NULL THEN @ ELSE new_node,
                          !.head = new_node,
                          !.curr_line_num = @ + 1]]

\* lines 138-148: new_node becomes the head
Insert(h, q, new_node) ==
    LET h1 == [h EXCEPT ![new_node].prev = NULL, ![new_node].next = q.head]
    IN [heap |-> IF q.head # NULL THEN [h1 EXCEPT ![q.head].prev = new_node]
                 ELSE h1,
        set |-> [q EXCEPT !.tail = IF q.head # NULL THEN @ ELSE new_node,
                          !.head = new_node,
                          !.curr_line_num = @ + 1]]

\* a new line that is clean whatever the operation
NewLineClean(tag, dirty) ==
    [prev |-> NULL, next |-> NULL, valid_bit |-> 1, dirty_bit |-> 0,
     tag |-> tag]

\* lines 109-114: the new line and its node
NewLine(tag, dirty) ==
    [prev |-> NULL, next |-> NULL, valid_bit |-> 1, dirty_bit |-> dirty,
     tag |-> tag]

\* a hit that falls through to the miss counter
CountHitAndMiss(tag, k, dirty) ==
    LET q == cache[k]
        found == FindNode(heap, q.head, tag)
        r == Hit(heap, q, found, dirty)
    IN /\ found # NULL
       /\ hit' = hit + 1
       /\ miss' = miss + 1
       /\ heap' = r.heap
       /\ cache' = [cache EXCEPT ![k] = r.set]
       /\ last_use' = [last_use EXCEPT ![found] = pos']
       /\ pc' = pc
       /\ UNCHANGED <<live, eviction, dirty_eviction>>

\* count(cache, tag, k, dirty), cache[k] being element k of the array:
\* the scan finds the line (lines 72-103)
CountHit(tag, k, dirty) ==
    LET q == cache[k]
        found == FindNode(heap, q.head, tag)
        r == Hit(heap, q, found, dirty)
    IN /\ found # NULL
       /\ hit' = hit + 1
       /\ heap' = r.heap
       /\ cache' = [cache EXCEPT ![k] = r.set]
       /\ last_use' = [last_use EXCEPT ![found] = pos']
       /\ pc' = pc
       /\ UNCHANGED <<live, miss, eviction, dirty_eviction>>

\* a miss in a set with room left (lines 106-114, 138-149)
CountMiss(tag, k, dirty) ==
    LET q == cache[k]
        new_node == NewNode(live)
        r == Insert([heap EXCEPT ![new_node] = NewLine(tag, dirty)], q, new_node)
    IN /\ FindNode(heap, q.head, tag) = NULL
       /\ ~MustEvict(q)
       /\ miss' = miss + 1
       /\ heap' = r.heap
       /\ cache' = [cache EXCEPT ![k] = r.set]
       /\ live' = live \cup {new_node}
       /\ last_use' = [last_use EXCEPT ![new_node] = pos']
       /\ pc' = pc
       /\ UNCHANGED <<hit, eviction, dirty_eviction>>

\* a miss in a full set: the victim is evicted, then the line inserted
CountMissEvict(tag, k, dirty) ==
    LET q == cache[k]
        new_node == NewNode(live)
        evict_node == Victim(q)
        h0 == [heap EXCEPT ![new_node] = NewLine(tag, dirty)]
        e == Evict(h0, q, evict_node)
        r == Insert(e.heap, e.set, new_node)
    IN /\ FindNode(heap, q.head, tag) = NULL
       /\ MustEvict(q)
       /\ evict_node # NULL
       /\ miss' = miss + 1
       /\ eviction' = eviction + 1
       /\ dirty_eviction' = IF h0[evict_node].dirty_bit = 1
                            THEN dirty_eviction + 1 ELSE dirty_eviction
       /\ heap' = r.heap
       /\ cache' = [cache EXCEPT ![k] = r.set]
       /\ live' = (live \ {evict_node}) \cup {new_node}
       /\ last_use' = [last_use EXCEPT ![evict_node] = 0, ![new_node] = pos']
       /\ pc' = pc
       /\ UNCHANGED hit

\* a miss that must evict from a set with no tail (E <= 0): line 129 reads
\* evict_node->line through NULL and the process faults
CountMissFault(tag, k, dirty) ==
    LET q == cache[k]
        new_node == NewNode(live)
    IN /\ FindNode(heap, q.head, tag) = NULL
       /\ MustEvict(q)
       /\ Victim(q) = NULL
       /\ miss' = miss + 1
       /\ eviction' = eviction + 1
       /\ heap' = [heap EXCEPT ![new_node] = NewLine(tag, dirty)]
       /\ live' = live \cup {new_node}
       /\ pc' = "crashed"
       /\ UNCHANGED <<cache, hit, dirty_eviction, last_use>>

\* cache[curr_set_num] is outside the array and the access faults
IndexFault ==
    /\ pc' = "crashed"
    /\ UNCHANGED <<cache, heap, live, hit, miss, eviction, dirty_eviction,
                   last_use>>

\* line 229: what fscanf("%c %lx,%d") leaves of a record.  The operation
\* character is always assigned; when the address field parses, all three
\* fields are assigned; when it does not, fscanf returns 1 and address keeps
\* what it held (an indeterminate value before the first assignment).
Stale == IF address = Uninit THEN Addrs ELSE {address}
Parsed == {[n |-> 3, a |-> x] : x \in Addrs}
Unparsed == {[n |-> 1, a |-> x] : x \in Stale}

\* lines 229-233: fscanf reads a record, main decodes address
Decode(op, r) ==
    /\ pc = "running"
    /\ pos < MaxTrace
    /\ pos' = pos + 1
    /\ operation' = op
    /\ nread' = r.n
    /\ address' = r.a
    /\ curr_tag' \in TagOutcomes(r.a)
    /\ curr_set_num' \in SetNumOutcomes(r.a)

\* lines 234-238: the dirty argument of count()
DirtyOf(op) == IF op = "S" THEN 1 ELSE 0

\* the element of cache that count() works on
Indexed == acc_set' \in AccOutcomes(curr_set_num') \ {NoSet}

\* one iteration of main's loop on an 'L' or 'S' record, by what count() does
AccessHit ==
    \E op \in {"L", "S"}, r \in Parsed :
        /\ Decode(op, r)
        /\ Indexed
        /\ CountHit(curr_tag', acc_set', DirtyOf(op))
        /\ accesses' = accesses + 1
        /\ UNCHANGED <<geometry, dirty_count, stats>>

AccessMiss ==
    \E op \in {"L", "S"}, r \in Parsed :
        /\ Decode(op, r)
        /\ Indexed
        /\ CountMiss(curr_tag', acc_set', DirtyOf(op))
        /\ accesses' = accesses + 1
        /\ UNCHANGED <<geometry, dirty_count, stats>>

AccessMissEvict ==
    \E op \in {"L", "S"}, r \in Parsed :
        /\ Decode(op, r)
        /\ Indexed
        /\ CountMissEvict(curr_tag', acc_set', DirtyOf(op))
        /\ accesses' = accesses + 1
        /\ UNCHANGED <<geometry, dirty_count, stats>>

AccessMissFault ==
    \E op \in {"L", "S"}, r \in Parsed :
        /\ Decode(op, r)
        /\ Indexed
        /\ CountMissFault(curr_tag', acc_set', DirtyOf(op))
        /\ accesses' = accesses + 1
        /\ UNCHANGED <<geometry, dirty_count, stats>>

\* an 'L' or 'S' record whose set index is outside the array, the access
\* to cache[curr_set_num] faulting
AccessIndexFault ==
    \E op \in {"L", "S"}, r \in Parsed :
        /\ Decode(op, r)
        /\ NoSet \in AccOutcomes(curr_set_num')
        /\ acc_set' = NoSet
        /\ IndexFault
        /\ accesses' = accesses + 1
        /\ UNCHANGED <<geometry, dirty_count, stats>>

\* a record of another operation handled as a Load
ReadOtherAsLoad ==
    \E op \in OtherOps, r \in Parsed :
        /\ Decode(op, r)
        /\ Indexed
        /\ \/ CountHit(curr_tag', acc_set', 0)
           \/ CountMiss(curr_tag', acc_set', 0)
           \/ CountMissEvict(curr_tag', acc_set', 0)
        /\ accesses' = accesses + 1
        /\ UNCHANGED <<geometry, dirty_count, stats>>

\* a record whose operation is neither 'L' nor 'S': its address is decoded
\* into the loop body's locals, which die with the iteration; count() is not
\* called
ReadOther ==
    \E op \in OtherOps, r \in Parsed :
        \E tag \in TagOutcomes(r.a), idx \in SetNumOutcomes(r.a) :
            /\ pc = "running"
            /\ pos < MaxTrace
            /\ pos' = pos + 1
            /\ operation' = op
            /\ nread' = r.n
            /\ address' = r.a
            /\ UNCHANGED <<geometry, cache, heap, live, counters, pc,
                           curr_tag, curr_set_num, acc_set, stats, last_use,
                           accesses>>

\* an 'L' or 'S' record whose address field does not parse: fscanf returns
\* 1 > 0, the loop body runs, and count() is called on what address held
AccessStale ==
    \E op \in {"L", "S"}, r \in Unparsed :
        /\ Decode(op, r)
        /\ \/ /\ Indexed
              /\ \/ CountHit(curr_tag', acc_set', DirtyOf(op))
                 \/ CountMiss(curr_tag', acc_set', DirtyOf(op))
                 \/ CountMissEvict(curr_tag', acc_set', DirtyOf(op))
                 \/ CountMissFault(curr_tag', acc_set', DirtyOf(op))
           \/ /\ NoSet \in AccOutcomes(curr_set_num')
              /\ acc_set' = NoSet
              /\ IndexFault
        /\ accesses' = accesses + 1
        /\ UNCHANGED <<geometry, dirty_count, stats>>

\* a character that is neither 'L' nor 'S' and is not followed by an
\* address (the newline that ends a record, for one)
ReadOtherStale ==
    \E op \in OtherOps, r \in Unparsed :
        \E tag \in TagOutcomes(r.a), idx \in SetNumOutcomes(r.a) :
            /\ pc = "running"
            /\ pos < MaxTrace
            /\ pos' = pos + 1
            /\ operation' = op
            /\ nread' = r.n
            /\ address' = r.a
            /\ UNCHANGED <<geometry, cache, heap, live, counters, pc,
                           curr_tag, curr_set_num, acc_set, stats, last_use,
                           accesses>>

\* lines 229-233 alone: a record is read and its address decoded, the
\* results kept in curr_tag and curr_set_num; count() is left out
DecodeRecord ==
    \E a \in DecAddrs :
        /\ pc = "running"
        /\ operation' = "M"
        /\ nread' = 3
        /\ address' = a
        /\ curr_tag' \in TagOutcomes(a)
        /\ curr_set_num' \in SetNumOutcomes(a)
        /\ UNCHANGED <<geometry, cache, heap, live, counters, pc, pos,
                       acc_set, stats, last_use, accesses>>

\* ------------------------------------------------------------- free_cache
\* lines 161-173: the nodes free_cache walks, those of cache[0] .. cache[S-1]
Swept(h, c) == UNION {Range(Nodes(h, c[i])) : i \in SetIds}

DirtyResident(h, c) == {n \in Swept(h, c) : h[n].dirty_bit = 1}

\* lines 245-249: the report written from the counters
StatsOf(mi, hi, ev, de, dc) ==
    [reported |-> TRUE,
     misses |-> IntToULong(mi),
     hits |-> IntToULong(hi),
     evictions |-> IntToULong(ev),
     dirty_evictions |-> IntMulToULong(de, B),
     dirty_bytes |-> IntMulToULong(dc, B)]

\* fscanf finds the trace exhausted: free_cache, then the report
EndOfTrace ==
    /\ pc = "running"
    /\ pc' = "done"
    /\ dirty_count' = dirty_count + Cardinality(DirtyResident(heap, cache))
    /\ heap' = [n \in NodeIds |->
                   IF n \in Swept(heap, cache) THEN FreeNode ELSE heap[n]]
    /\ live' = live \ Swept(heap, cache)
    /\ cache' = [i \in DOMAIN cache |->
                    IF i \in SetIds THEN EmptySet ELSE cache[i]]
    /\ last_use' = [n \in NodeIds |->
                       IF n \in Swept(heap, cache) THEN 0 ELSE last_use[n]]
    /\ stats' = StatsOf(miss, hit, eviction, dirty_eviction, dirty_count')
    /\ UNCHANGED <<geometry, hit, miss, eviction, dirty_eviction, pos,
                   operation, address, nread, curr_tag, curr_set_num, acc_set,
                   accesses>>

\* ---------------------------------------------------------- specification
\* the state when the trace loop is entered, for the options -s, -b of G
\* and -E of Es
Boot(G, Es) ==
    /\ \E g \in G : s = g[1] /\ b = g[2]
    /\ E \in Es
    /\ S = Pow2(s)
    /\ B \in IntShlOneOutcomes(b)
    /\ t = ADDRESS_BITS - (s + b)
    /\ oob \in IF OutOfArray THEN OobModes ELSE {"fault"}
    /\ cache = [i \in SetIds \cup (IF oob = "beyond" THEN Beyond ELSE {})
                   |-> EmptySet]
    /\ heap = [n \in NodeIds |-> FreeNode]
    /\ live = {}
    /\ hit = 0 /\ miss = 0 /\ eviction = 0
    /\ dirty_count = 0 /\ dirty_eviction = 0
    /\ pc = "running"
    /\ pos = 0
    /\ operation = "none"
    /\ address = Uninit
    /\ nread = 0
    /\ accesses = 0
    /\ curr_tag = {}
    /\ curr_set_num = {}
    /\ acc_set = NoSet
    /\ stats = NoStats
    /\ last_use = [n \in NodeIds |-> 0]

\* the geometries whose block shift overflows an int are run with at most
\* one line per set
Init ==
    /\ Boot(Geoms, EVals)
    /\ b >= INT_BITS - 1 => E <= 1

Next ==
    \/ AccessHit
    \/ AccessMiss
    \/ AccessMissEvict
    \/ AccessMissFault
    \/ AccessIndexFault
    \/ ReadOther
    \/ EndOfTrace

Spec == Init /\ [][Next]_vars

\* main runs on without waiting for anything: while a step is possible (a
\* record to read, or the end of the trace) one is taken
FairSpec == Spec /\ WF_vars(Next)

\* traces with records whose address does not parse, on two geometries
MalGeoms == {<<0, 0>>, <<1, 1>>}
InitMalformed == Boot(MalGeoms, 1..MaxE)
NextMalformed ==
    \/ AccessHit
    \/ AccessMiss
    \/ AccessMissEvict
    \/ ReadOther
    \/ AccessStale
    \/ ReadOtherStale
    \/ EndOfTrace
SpecMalformed == InitMalformed /\ [][NextMalformed]_vars

\* the decoder on its own
InitDecode == Boot(DecGeoms, {1})
NextDecode == DecodeRecord
SpecDecode == InitDecode /\ [][NextDecode]_vars

\* ------------------------------------------------------------ properties
SetNodes(k) == Nodes(heap, cache[k])
Resident == UNION {Range(SetNodes(k)) : k \in SetIds}
ValidGeometry == E >= 1

\* C1 (capacity): with E >= 1, after every access each set holds at most E
\* lines, counted both along the list from head and by curr_line_num.
C1_Capacity ==
    ValidGeometry =>
        \A k \in SetIds :
            /\ Len(SetNodes(k)) <= E
            /\ cache[k].curr_line_num <= E

\* a full set that has already evicted a line
C1_Witness ==
    /\ ValidGeometry
    /\ E = MaxE
    /\ eviction >= 1
    /\ \E k \in SetIds : Len(SetNodes(k)) = E /\ cache[k].curr_line_num = E

\* C2 (uniqueness): within one set no two valid lines carry the same tag.
C2_Uniqueness ==
    \A k \in SetIds :
        \A i, j \in DOMAIN SetNodes(k) :
            (/\ i # j
             /\ heap[SetNodes(k)[i]].valid_bit # 0
             /\ heap[SetNodes(k)[j]].valid_bit # 0)
            => heap[SetNodes(k)[i]].tag # heap[SetNodes(k)[j]].tag

\* a set of two valid lines whose tail has just been hit and promoted
C2_Witness ==
    /\ pc = "running"
    /\ hit >= 1
    /\ \E k \in SetIds :
          /\ Len(SetNodes(k)) = 2
          /\ \A i \in 1..2 : heap[SetNodes(k)[i]].valid_bit = 1
          /\ last_use[SetNodes(k)[1]] = pos
          /\ heap[SetNodes(k)[1]].tag = curr_tag
          /\ SetNodes(k)[1] < SetNodes(k)[2]

\* C3 (LRU victim): a miss on a full set frees exactly one line of that set,
\* the one whose last use (hit or insertion) is the oldest among the set's
\* residents; after A, B, A in a set with E = 2 a miss on C evicts B and
\* leaves C, A; a set's list changes only in an access that hits or misses in
\* that set (or at teardown).
C3_LRUVictim ==
    [][ /\ (eviction' = eviction + 1 /\ pc' = "running") =>
             LET k == acc_set'
                 before == Range(SetNodes(k))
             IN /\ Len(SetNodes(k)) = E
                /\ \E v \in before :
                      /\ live \ live' = {v}
                      /\ \A n \in before : last_use[v] <= last_use[n]
                /\ Range(Nodes(heap', cache'[k]))
                      = (before \ (live \ live')) \cup (live' \ live)
        /\ \A k \in SetIds :
              (/\ E = 2 /\ pos = 3 /\ hit = 1 /\ miss = 2
               /\ SetNodes(k) = <<1, 2>>
               /\ last_use[1] = 3 /\ last_use[2] = 2
               /\ miss' = miss + 1 /\ acc_set' = k /\ pc' = "running")
              => /\ Nodes(heap', cache'[k]) = <<3, 1>>
                 /\ heap'[1].tag = heap[1].tag
                 /\ heap'[3].tag = curr_tag'
                 /\ \A n \in {3, 1} : heap'[n].tag # heap[2].tag
        /\ \A k \in SetIds :
              Nodes(heap', cache'[k]) # SetNodes(k)
              => \/ pc' = "done"
                 \/ /\ k = acc_set'
                    /\ pos' = pos + 1
                    /\ operation' \in {"L", "S"}
                    /\ hit' + miss' = hit + miss + 1
      ]_vars

\* the state after A, B, A, C in one set with E = 2: C and A resident
C3_Witness ==
    /\ E = 2 /\ pos = 4 /\ hit = 1 /\ miss = 3 /\ eviction = 1
    /\ pc = "running"
    /\ \E k \in SetIds :
          /\ SetNodes(k) = <<3, 1>>
          /\ last_use[1] = 3
          /\ last_use[3] = 4

\* C4 (sticky dirty bit): a Store that hits sets the line's dirty bit; a
\* resident line whose dirty bit is 1 keeps it (and its tag) for as long as
\* it stays resident; a line leaves its set only by eviction or at teardown.
C4_DirtySticky ==
    [][ LET after == Resident'
        IN /\ (operation' = "S" /\ hit' = hit + 1) =>
                 LET found == {n \in Range(SetNodes(acc_set')) :
                                  heap[n].valid_bit # 0 /\ heap[n].tag = curr_tag'}
                 IN /\ found # {}
                    /\ \A n \in found :
                          /\ n \in Range(Nodes(heap', cache'[acc_set']))
                          /\ heap'[n].dirty_bit = 1
           /\ \/ UNCHANGED <<heap, cache>>
              \/ \A n \in Resident :
                    /\ (n \in after /\ heap[n].dirty_bit = 1)
                          => heap'[n].dirty_bit = 1 /\ heap'[n].tag = heap[n].tag
                    /\ n \notin after
                          => eviction' = eviction + 1 \/ pc' = "done"
      ]_vars

\* a dirty line that a Load has just hit and that is still dirty
C4_Witness ==
    /\ pc = "running"
    /\ operation = "L"
    /\ acc_set # NoSet
    /\ \E n \in Range(SetNodes(acc_set)) :
          /\ heap[n].tag = curr_tag
          /\ heap[n].dirty_bit = 1
          /\ last_use[n] = pos

\* x + 2^k as an unsigned 64-bit sum
AddPow2(x, k) ==
    IF \E j \in k..(ADDRESS_BITS - 1) : j \notin x
    THEN LET j == CHOOSE i \in k..(ADDRESS_BITS - 1) :
                     i \notin x /\ \A m \in k..(i - 1) : m \in x
         IN (x \ (k..(j - 1))) \cup {j}
    ELSE x \ (k..(ADDRESS_BITS - 1))

\* n * 2^k, exactly
ExactBytes(n, k) == {i + k : i \in BitsOf(n)}

\* the dirty_eviction_bytes main reports from the counters as they stand
ReportedDirtyEvictionBytes ==
    StatsOf(miss, hit, eviction, dirty_eviction, dirty_count).dirty_evictions

DirtyLines == {n \in Resident : heap[n].dirty_bit = 1}

\* C5 (dirty-eviction accounting): for a block size 2^b that fits the report
\* (b < 64), an eviction of a dirty line raises the reported
\* dirty_eviction_bytes by exactly 2^b and every other step leaves it
\* unchanged, so the final report is 2^b times the number of dirty evictions.
C5_DirtyEvictionBytes ==
    [][ b < ADDRESS_BITS =>
          /\ ReportedDirtyEvictionBytes' =
                IF /\ eviction' = eviction + 1
                   /\ \E v \in live \ live' : heap[v].dirty_bit = 1
                THEN AddPow2(ReportedDirtyEvictionBytes, b)
                ELSE ReportedDirtyEvictionBytes
          /\ (pc = "running" /\ pc' = "done")
                => /\ stats'.dirty_evictions = ReportedDirtyEvictionBytes
                   /\ stats'.dirty_evictions = ExactBytes(dirty_eviction, b)
      ]_vars

\* C6 (final dirty-byte sweep): for b < 64, dirty_count is 0 while the run is
\* Running; the step to Done reports dirty_bytes = 2^b times the number of
\* lines resident and dirty at that moment; once Done, neither changes again.
C6_FinalDirtyBytes ==
    [][ b < ADDRESS_BITS =>
          /\ pc' = "running" => dirty_count' = 0
          /\ (pc = "running" /\ pc' = "done")
                => /\ dirty_count' = Cardinality(DirtyLines)
                   /\ stats'.reported
                   /\ stats'.dirty_bytes = ExactBytes(Cardinality(DirtyLines), b)
          /\ pc = "done" => UNCHANGED <<dirty_count, stats>>
      ]_vars

\* C7 (idempotent load): a Load whose line is resident is a hit: hits rises
\* by 1; misses, evictions, dirty evictions, every set's membership and every
\* line's tag and dirty bit stay as they were, and the other sets keep their
\* order; when the access before it was a Load of the same line, the set's
\* recency order (the whole cache) is unchanged too.
C7_IdempotentLoad ==
    [][ (/\ operation' = "L"
         /\ pos' = pos + 1
         /\ acc_set' # NoSet
         /\ \E n \in Range(SetNodes(acc_set')) :
               heap[n].valid_bit # 0 /\ heap[n].tag = curr_tag')
        => /\ pc' = "running"
           /\ hit' = hit + 1
           /\ UNCHANGED <<miss, eviction, dirty_eviction, dirty_count, live>>
           /\ \A k \in SetIds :
                 /\ Range(Nodes(heap', cache'[k])) = Range(SetNodes(k))
                 /\ cache'[k].curr_line_num = cache[k].curr_line_num
                 /\ k # acc_set' => Nodes(heap', cache'[k]) = SetNodes(k)
           /\ \A n \in Resident :
                 /\ heap'[n].dirty_bit = heap[n].dirty_bit
                 /\ heap'[n].tag = heap[n].tag
                 /\ heap'[n].valid_bit = heap[n].valid_bit
           /\ (operation = "L" /\ curr_tag = curr_tag' /\ acc_set = acc_set')
                 => UNCHANGED <<cache, heap>>
      ]_vars

\* three Loads of one line in a row: a miss, then two hits, the line clean
C7_Witness ==
    /\ pc = "running"
    /\ operation = "L"
    /\ pos = 3 /\ miss = 1 /\ hit = 2 /\ eviction = 0
    /\ \E n \in Resident :
          /\ Resident = {n}
          /\ heap[n].dirty_bit = 0
          /\ heap[n].tag = curr_tag
          /\ last_use[n] = 3

\* C8 (configuration error): with an invalid geometry (E <= 0 or s + b > 64)
\* no trace record is processed, no counter changes and nothing is reported.
C8_ConfigurationError ==
    (E <= 0 \/ s + b > ADDRESS_BITS)
    => /\ pos = 0
       /\ hit = 0 /\ miss = 0 /\ eviction = 0
       /\ dirty_eviction = 0 /\ dirty_count = 0
       /\ ~stats.reported

\* C9 (single set): with s = 0, E >= 1 and 0 <= b <= 64 the set index
\* computed for every Load and Store is 0, whatever the address.
C9_SingleSetIndex ==
    (/\ s = 0
     /\ E >= 1
     /\ b \in 0..ADDRESS_BITS
     /\ operation \in {"L", "S"})
    => curr_set_num = {}

\* C10 (shift amounts): with s >= 0, b >= 0, s + b <= 64 and E >= 1, once a record
\* has been decoded, the tag shift by s + b, the left shift by t and the
\* right shift by b + t all had amounts in 0..63.
C10_ShiftAmounts ==
    (s >= 0 /\ b >= 0 /\ s + b <= ADDRESS_BITS /\ E >= 1 /\ pos >= 1)
    => /\ TagShift \in 0..(ADDRESS_BITS - 1)
       /\ SetShiftLeft \in 0..(ADDRESS_BITS - 1)
       /\ SetShiftRight \in 0..(ADDRESS_BITS - 1)

\* the reference decoder: (a >> b) & ((1 << s) - 1) and a >> (s + b)
RefSetIndex(a) == {i - b : i \in {j \in a : j >= b /\ j < b + s}}
RefTag(a) == {i - (s + b) : i \in {j \in a : j >= s + b}}
\* the bits of a above its low b bits
HighBits(a) == {i \in a : i >= b}

\* C11 (decoder against reference): with s >= 1 and s + b <= 63, every
\* decoded address a gets the tag a >> (s + b) and the set index
\* (a >> b) & ((1 << s) - 1), which lies in 0 .. S-1; two addresses decoded
\* one after the other get the same (tag, set index) exactly when they agree
\* on all bits above the low b bits.
C11_DecoderReference ==
    [][ (s >= 1 /\ s + b <= ADDRESS_BITS - 1) =>
          /\ curr_tag' = RefTag(address')
          /\ curr_set_num' = RefSetIndex(address')
          /\ \A i \in curr_set_num' : i < s
          /\ ValueOf(curr_set_num') \in 0..(S - 1)
          /\ address # Uninit =>
                ((curr_tag' = curr_tag /\ curr_set_num' = curr_set_num)
                   <=> HighBits(address') = HighBits(address))
      ]_vars

\* s = 2, b = 61: the address with bits 62 and 63 has set index 2, tag 1
C11_Witness ==
    /\ s = 2 /\ b = 61
    /\ address = {62, 63}
    /\ curr_set_num = {1}
    /\ curr_tag = {0}

\* C12 (other operations ignored): a record whose operation is neither 'L'
\* nor 'S' changes no counter, no set's contents, recency order or dirty
\* bits and is not an error; the Load or Store read after it is classified
\* against the cache as it was before the ignored record.
C12_OtherIgnored ==
    [][ /\ (pos' = pos + 1 /\ operation' \notin {"L", "S"}) =>
             /\ UNCHANGED <<hit, miss, eviction, dirty_eviction, dirty_count>>
             /\ UNCHANGED <<cache, heap, live, last_use, accesses>>
             /\ pc' = "running"
             /\ ~stats'.reported
        /\ (/\ operation \notin {"L", "S", "none"}
            /\ pos' = pos + 1
            /\ operation' \in {"L", "S"}
            /\ acc_set' # NoSet
            /\ pc' = "running") =>
             /\ hit' + miss' = hit + miss + 1
             /\ (hit' = hit + 1) <=>
                    \E n \in Range(SetNodes(acc_set')) :
                        heap[n].valid_bit # 0 /\ heap[n].tag = curr_tag'
      ]_vars

\* a Load, a record of another operation, then a Load of another line: the
\* second record left the first line's recency as it was
C12_Witness ==
    /\ pc = "running"
    /\ pos = 3 /\ accesses = 2 /\ miss = 2 /\ hit = 0
    /\ operation = "L"
    /\ \E k \in SetIds :
          /\ SetNodes(k) = <<2, 1>>
          /\ last_use[1] = 1
          /\ last_use[2] = 3

\* C13 (malformed record skipped): a record whose address field does not
\* parse changes no counter and no set's state, and the run goes on.
C13_MalformedSkipped ==
    [][ (pos' = pos + 1 /\ nread' < 3) =>
          /\ UNCHANGED <<hit, miss, eviction, dirty_eviction, dirty_count>>
          /\ UNCHANGED <<cache, heap, live>>
          /\ pc' = "running"
      ]_vars

\* C14 (exact byte totals): for b >= 0 and s + b <= 64 the report made at
\* the end of the trace has dirty_bytes = 2^b times the number of lines
\* resident and dirty at teardown, dirty_eviction_bytes = 2^b times the
\* number of dirty evictions, and hits, misses and evictions equal to the
\* counts, as unsigned 64-bit values.
C14_ExactTotals ==
    [][ (b >= 0 /\ s + b <= ADDRESS_BITS /\ pc = "running" /\ pc' = "done") =>
          /\ stats'.dirty_bytes = ExactBytes(Cardinality(DirtyLines), b)
          /\ stats'.dirty_evictions = ExactBytes(dirty_eviction, b)
          /\ stats'.hits = BitsOf(hit)
          /\ stats'.misses = BitsOf(miss)
          /\ stats'.evictions = BitsOf(eviction)
      ]_vars

\* s >= 0, b >= 0, E >= 1 and s + b <= 64
AdmissibleGeometry ==
    s >= 0 /\ b >= 0 /\ E >= 1 /\ s + b <= ADDRESS_BITS

\* C15 (run to completion): with a valid geometry the records are read in
\* order, one at a time, and the run eventually leaves Running for Done;
\* the dirty sweep and the report are made at that step, and once Done the
\* counters and the report never change again.
C15_RunToCompletion ==
    /\ AdmissibleGeometry => <>(pc = "done")
    /\ [][ /\ pos' \in {pos, pos + 1}
           /\ (pc = "running" /\ pc' = "done") =>
                 /\ dirty_count' = Cardinality(DirtyLines)
                 /\ stats'.reported
           /\ pc = "done" => UNCHANGED <<counters, stats, pc>>
         ]_vars

\* seq without its element n
Without(seq, n) == SelectSeq(seq, LAMBDA x : x # n)

\* the nodes reached from n by following prev, in order
RECURSIVE WalkBack(_, _)
WalkBack(h, n) == IF n = NULL THEN <<>> ELSE <<n>> \o WalkBack(h, h[n].prev)

Reverse(seq) == [i \in 1..Len(seq) |-> seq[Len(seq) + 1 - i]]

\* C16 (promote preserves order): on a hit the found line becomes the head
\* of its set's list and the other lines keep their relative order; a hit
\* on the head leaves the list and its links exactly as they were; head,
\* tail and curr_line_num agree with the list afterwards, walked from
\* either end, and the other sets are untouched.
C16_PromoteOrder ==
    [][ hit' = hit + 1 =>
          LET k == acc_set'
              before == SetNodes(k)
              after == Nodes(heap', cache'[k])
              hits == {n \in Range(before) :
                          heap[n].valid_bit # 0 /\ heap[n].tag = curr_tag'}
          IN /\ hits # {}
             /\ \A found \in hits :
                   /\ after = <<found>> \o Without(before, found)
                   /\ before[1] = found =>
                         /\ cache' = cache
                         /\ \A n \in NodeIds :
                               /\ heap'[n].prev = heap[n].prev
                               /\ heap'[n].next = heap[n].next
             /\ cache'[k].head = after[1]
             /\ cache'[k].tail = after[Len(after)]
             /\ cache'[k].curr_line_num = Len(after)
             /\ Len(after) = Len(before)
             /\ WalkBack(heap', cache'[k].tail) = Reverse(after)
             /\ \A j \in SetIds \ {k} :
                   cache'[j] = cache[j] /\ Nodes(heap', cache'[j]) = SetNodes(j)
      ]_vars

\* A, B, C inserted in a set with E = 3, then a hit on B, the middle line
C16_Witness ==
    /\ E = 3 /\ pos = 4 /\ hit = 1 /\ miss = 3
    /\ pc = "running"
    /\ \E k \in SetIds :
          /\ SetNodes(k) = <<2, 3, 1>>
          /\ last_use[2] = 4
          /\ last_use[3] = 3
          /\ cache[k].tail = 1

\* C17 (miss handling): an access that count() completes is a miss exactly
\* when no valid line with its tag is resident in the indexed set; a miss
\* raises misses by 1 and leaves hits, evicts (evictions + 1, one line
\* freed) exactly when the set held E lines, and otherwise removes no line;
\* afterwards the head of the set is the new line: valid, with the accessed
\* tag, dirty for a Store and clean for a Load.
C17_MissHandling ==
    [][ (/\ pos' = pos + 1
         /\ operation' \in {"L", "S"}
         /\ acc_set' # NoSet
         /\ pc' = "running") =>
          LET k == acc_set'
              before == SetNodes(k)
              after == Nodes(heap', cache'[k])
              resident == \E n \in Range(before) :
                              heap[n].valid_bit # 0 /\ heap[n].tag = curr_tag'
              head == cache'[k].head
          IN /\ (miss' = miss + 1) <=> ~resident
             /\ miss' \in {miss, miss + 1}
             /\ ~resident =>
                   /\ hit' = hit
                   /\ eviction' \in {eviction, eviction + 1}
                   /\ (eviction' = eviction + 1) <=> Len(before) = E
                   /\ (eviction' = eviction + 1) <=> cache[k].curr_line_num = E
                   /\ eviction' = eviction + 1 =>
                         /\ Cardinality(live \ live') = 1
                         /\ live \ live' \subseteq Range(before)
                   /\ eviction' = eviction =>
                         /\ live \subseteq live'
                         /\ after = <<head>> \o before
                   /\ head # NULL
                   /\ head \notin live
                   /\ after[1] = head
                   /\ heap'[head].valid_bit = 1
                   /\ heap'[head].tag = curr_tag'
                   /\ heap'[head].dirty_bit = IF operation' = "S" THEN 1 ELSE 0
      ]_vars

\* a Store that missed in a full set of two lines: one line evicted, the
\* new dirty line at the head
C17_Witness ==
    /\ pc = "running"
    /\ operation = "S"
    /\ E = 2 /\ eviction = 1 /\ miss = 3 /\ pos = 3
    /\ acc_set # NoSet
    /\ Len(SetNodes(acc_set)) = 2
    /\ heap[cache[acc_set].head].tag = curr_tag
    /\ heap[cache[acc_set].head].dirty_bit = 1
    /\ last_use[cache[acc_set].head] = pos

\* the sum of curr_line_num over the sets of ids
RECURSIVE LineCount(_)
LineCount(ids) ==
    IF ids = {} THEN 0
    ELSE LET k == CHOOSE x \in ids : TRUE
         IN cache[k].curr_line_num + LineCount(ids \ {k})

\* C18 (conservation of lines): with a valid geometry, while the run is
\* Running the number of lines resident over all sets, counted along the
\* lists and by curr_line_num, is misses - evictions, and always
\* dirty evictions <= evictions <= misses.
C18_Conservation ==
    AdmissibleGeometry =>
        /\ pc # "done" =>
              /\ Cardinality(Resident) = miss - eviction
              /\ LineCount(SetIds) = miss - eviction
              /\ Cardinality(live) = miss - eviction
        /\ dirty_eviction <= eviction
        /\ eviction <= miss

\* two lines resident after four misses, one of the two evictions dirty
C18_Witness ==
    /\ AdmissibleGeometry
    /\ pc = "running"
    /\ miss = 4 /\ eviction = 2 /\ dirty_eviction = 1
    /\ Cardinality(Resident) = 2

\* C19 (every access classified once): while the run has not faulted,
\* hits + misses is the number of calls of count(), one per Load or Store
\* record read; a call of count() that finds its set raises exactly one of
\* hit and miss, by exactly 1, and no other step changes either.
C19_ClassifiedOnce ==
    [][ /\ pc' # "crashed" => hit' + miss' = accesses'
        /\ (accesses' = accesses + 1) <=>
              (pos' = pos + 1 /\ operation' \in {"L", "S"})
        /\ accesses' \in {accesses, accesses + 1}
        /\ (accesses' = accesses + 1 /\ acc_set' # NoSet) =>
              \/ hit' = hit + 1 /\ miss' = miss
              \/ hit' = hit /\ miss' = miss + 1
        /\ accesses' = accesses => UNCHANGED <<hit, miss>>
      ]_vars

\* four records, one of them neither a Load nor a Store: a miss, two hits
C19_Witness ==
    /\ pc = "running"
    /\ pos = 4 /\ accesses = 3
    /\ hit = 2 /\ miss = 1

\* one set's list is well formed
WellFormed(k) ==
    LET q == cache[k]
        list == SetNodes(k)
    IN /\ (q.head = NULL) <=> (q.tail = NULL)
       /\ (q.head = NULL) <=> (q.curr_line_num = 0)
       /\ q.head # NULL => heap[q.head].prev = NULL
       /\ q.tail # NULL => heap[q.tail].next = NULL
       /\ \A n \in Range(list) :
             heap[n].next # NULL => heap[heap[n].next].prev = n
       /\ Len(list) = q.curr_line_num
       /\ list # <<>> => list[Len(list)] = q.tail
       /\ \A i, j \in DOMAIN list : i # j => list[i] # list[j]
       /\ Range(list) \subseteq live
       /\ \A n \in Range(list) : heap[n].valid_bit = 1

\* C20 (list well-formedness): with a valid geometry every set's list is
\* well formed after every call of count(): head, tail and curr_line_num
\* are empty together; head has no prev and tail no next; next and prev
\* agree; next from head reaches tail after curr_line_num nodes; no node
\* on a list has been freed.
C20_WellFormedLists ==
    AdmissibleGeometry => \A k \in SetIds : WellFormed(k)

\* a full set of three lines after an eviction: the first node freed and
\* unlinked, the fourth at the head
C20_Witness ==
    /\ AdmissibleGeometry
    /\ pc = "running"
    /\ E = 3 /\ eviction = 1
    /\ 1 \notin live
    /\ \E k \in SetIds : SetNodes(k) = <<4, 3, 2>> /\ cache[k].tail = 2
====
